---- MODULE Spec2Model ----
(***************************************************************************)
(* A model of the serializer: the traversal engine of serialize.hpp        *)
(* (serialize, deserialize, serializeStruct, deserializeStruct,            *)
(* bindSerialize) and the attribute container (AttrContainer) of the text  *)
(* backend.  The variable scenario says which client runs: "engine" (the  *)
(* traversal engine on one buffer), "bind" (bindSerialize), "struct" (the  *)
(* struct fast path) or "chain" (the field descriptor chain).              *)
(***************************************************************************)
EXTENDS Integers, Sequences, FiniteSets, TLC

\* Bounds of the model.
MaxLen == 3
MaxSlack == 1
MaxOps == 2

VARIABLES
    scenario,   \* the client that runs
    op,         \* the operation that ran last
    nops,       \* how many operations ran
    status,     \* "ok" or "OutOfRange": how the last operation ended
    mem,        \* the buffer (a sequence of bytes)
    memKind,    \* "vector" (resizable) or "bytes" (tools::Bytes)
    slack,      \* what the storage grows by beyond the bytes needed
    prevMem,    \* the buffer before the last operation
    callPos,    \* the pos argument of the last operation
    callArgs,   \* the args of the last operation
    ret,        \* the position the last operation returned
    trims,      \* the mem.resize calls of the last serialize: <<depth, from, to>>
    steps,      \* the arguments the fold of the last call handled, in order
    outVals,    \* the arguments after the last deserialize
    failAt,     \* the argument the last deserialize failed at (0: none)
    recs,       \* the records written since the buffer was last started at 0
    obj,        \* the host object bindSerialize is given
    closure,    \* the callable bindSerialize returned
    objAtBind,  \* the host's fields when bindSerialize ran
    sobj,       \* the struct deserializeStruct writes to
    sprev,      \* that struct before the last deserializeStruct
    written,    \* the last serializeStruct: its position and object
    sig,        \* the chain's field types
    ids,        \* the identifier string the chain was built from
    srcF,       \* the fields of the host that is encoded
    dstF,       \* the fields of the host that is decoded into
    dst0,       \* those fields before the last decode
    heap,       \* the allocations: their pointee and how often they were freed
    heap0,      \* the allocations before the last decode
    str,        \* the sink string
    str0,       \* the sink before the last encode
    input,      \* the text handed to the last decode
    view,       \* the string_view after the last decode
    clog,       \* per decoded node: what the convertor saw
    tyT,        \* the type the predicates were last instantiated with
    isString,   \* is_string_v<T> of either header, for that type
    instances   \* the types instantiated so far

bufVars == <<mem, memKind, slack, prevMem, callPos, callArgs, ret, trims, steps, outVals,
             failAt, recs>>
bindVars == <<obj, closure, objAtBind>>
structVars == <<sobj, sprev, written>>
chainVars == <<sig, ids, srcF, dstF, dst0, heap, heap0, str, str0, input, view, clog>>
metaVars == <<tyT, isString, instances>>
vars == <<scenario, op, nops, status, bufVars, bindVars, structVars, chainVars, metaVars>>

(***************************************************************************)
(* Bytes.                                                                  *)
(***************************************************************************)

\* 256^n
RECURSIVE Pow256(_)
Pow256(n) == IF n = 0 THEN 1 ELSE 256 * Pow256(n - 1)

\* The in-memory representation of a signed integer of n bytes (two's
\* complement, little endian: a negative v is the complement of -v - 1) and
\* its inverse.
EncLE(v, n) ==
    LET u == IF v >= 0 THEN v ELSE -v - 1
    IN [i \in 1..n |-> IF v >= 0 THEN (u \div Pow256(i - 1)) % 256
                                  ELSE 255 - ((u \div Pow256(i - 1)) % 256)]

RECURSIVE SumLE(_, _)
SumLE(bs, i) == IF i > Len(bs) THEN 0 ELSE bs[i] * Pow256(i - 1) + SumLE(bs, i + 1)

DecLE(bs) ==
    IF bs[Len(bs)] >= 128
    THEN -SumLE([i \in 1..Len(bs) |-> 255 - bs[i]], 1) - 1
    ELSE SumLE(bs, 1)

\* A 16-bit integer argument.
EncInt(v) == EncLE(v, 2)

DecInt(bs) == DecLE(bs)

\* The values handed to serialize and deserialize: k is the category.
IntV(v) == [k |-> "int", n |-> v, s |-> <<>>]
VecV(xs) == [k |-> "vec", n |-> 0, s |-> xs]
ObjV(fs) == [k |-> "obj", n |-> 0, s |-> fs]
FnV(mode, fs) == [k |-> "fn", n |-> mode, s |-> fs]

\* mem.resize(n): cut, or fill with zeroes.
Resize(m, n) == [i \in 1..n |-> IF i <= Len(m) THEN m[i] ELSE 0]

\* The strategy instance bound to the buffer and the position.
Serializer(m, pos) ==
    [mem |-> m, pos |-> pos, trims |-> <<>>, status |-> "ok", vals |-> <<>>, fail |-> 0,
     steps |-> <<>>]

\* Serializer::append: write at the position, growing the storage when the
\* bytes do not fit.
SerAppend(st, bytes) ==
    LET need == st.pos + Len(bytes)
        grown == IF need > Len(st.mem) THEN Resize(st.mem, need + slack) ELSE st.mem
    IN [st EXCEPT !.mem = [i \in 1..Len(grown) |->
                              IF i > st.pos /\ i <= need THEN bytes[i - st.pos]
                              ELSE grown[i]],
                  !.pos = need]

\* The bytes of the elements of a vector of integers.
RECURSIVE VecBytes(_)
VecBytes(xs) ==
    IF xs = <<>> THEN <<>> ELSE EncInt(Head(xs)) \o VecBytes(Tail(xs))

\* bool first_level = pos == 0
FirstLevel(pos) == pos = 0

\* The resize branch: a resizable buffer that is not a tools::Bytes is
\* trimmed by the call that found itself at the first level.
TrimAtEnd(st, first_level, depth) ==
    IF memKind = "vector" /\ first_level
    THEN [st EXCEPT !.mem = Resize(st.mem, st.pos),
                    !.trims = Append(@, <<depth, Len(st.mem), st.pos>>)]
    ELSE st

RECURSIVE SerializeCall(_, _, _, _)
RECURSIVE SerFold(_, _, _)
RECURSIVE Serialize_(_, _, _)
RECURSIVE CallFnSer(_, _, _)

\* What the fold lambda did with one argument: the branch of the if
\* constexpr it took, the phase of the context it made for a callable, and
\* the strategy's position before and after.
Step(depth, a, path, phase, from, to) ==
    [depth |-> depth, arg |-> a, path |-> path, phase |-> phase, from |-> from, to |-> to]

\* The steps of the calls inside the call at depth.
Deeper(ss, depth) == SelectSeq(ss, LAMBDA e : e.depth > depth)

\* A nested call shares the buffer; the caller's strategy goes on from the
\* position the nested call returned.
NestedSer(st, fs, depth) ==
    LET r == SerializeCall(st.mem, st.pos, fs, depth + 1)
    IN [st EXCEPT !.mem = r.mem, !.pos = r.pos, !.trims = @ \o r.trims,
                  !.steps = @ \o r.steps]

\* Serializer::serialize_: the default operation, by the category of the value.
Serialize_(st, a, depth) ==
    CASE a.k = "int" -> SerAppend(st, EncInt(a.n))
      [] a.k = "vec" -> SerAppend(SerAppend(st, <<Len(a.s)>>), VecBytes(a.s))
      [] a.k = "obj" -> NestedSer(st, a.s, depth)

\* A phase-aware callable in the Serialization phase: it hands its values to
\* the strategy of the context (mode 0) or enters serialize again at the
\* strategy's position (mode 1).
CallFnSer(st, a, depth) ==
    IF a.n = 0
    THEN LET r == SerFold([st EXCEPT !.steps = <<>>], a.s, depth)
         IN [r EXCEPT !.steps = st.steps \o Deeper(r.steps, depth)]
    ELSE NestedSer(st, a.s, depth)

\* A fold that takes the arguments from the right.
RECURSIVE SerFoldRightToLeft(_, _, _)
SerFoldRightToLeft(st, args, depth) ==
    IF args = <<>> THEN st
    ELSE LET a == Head(args)
             t == SerFoldRightToLeft(st, Tail(args), depth)
             st1 == IF a.k = "fn" THEN CallFnSer(t, a, depth)
                    ELSE Serialize_(t, a, depth)
             path == IF a.k = "fn" THEN "callable" ELSE "default"
         IN [st1 EXCEPT !.steps = Append(@, Step(depth, a, path, "Serialization",
                                                  t.pos, st1.pos))]

\* The fold of serialize over its arguments, left to right.
SerFold(st, args, depth) ==
    IF args = <<>> THEN st
    ELSE LET a == Head(args)
             st1 == IF a.k = "fn" THEN CallFnSer(st, a, depth)
                    ELSE Serialize_(st, a, depth)
             path == IF a.k = "fn" THEN "callable" ELSE "default"
             st2 == [st1 EXCEPT !.steps = Append(@, Step(depth, a, path, "Serialization",
                                                          st.pos, st1.pos))]
         IN SerFold(st2, Tail(args), depth)

\* A strategy bound to the start of the buffer whatever pos is.
BindStrategyAtZero(m, pos) == Serializer(m, 0)

\* Ser serializer(mem, pos), in serialize
BindStrategy(m, pos) == Serializer(m, pos)

\* serialize<Ser>(mem, pos, args...); depth counts the calls it is inside.
SerializeCall(m, pos, args, depth) ==
    LET first_level == FirstLevel(pos)
        st == SerFold(BindStrategy(m, pos), args, depth)
    IN TrimAtEnd(st, first_level, depth)

(***************************************************************************)
(* Decoding.                                                               *)
(***************************************************************************)

\* A read of n bytes at the position: OutOfRange when fewer remain.
CanRead(st, n) == st.pos + n <= Len(st.mem)

Fail(st) == [st EXCEPT !.status = "OutOfRange"]

RECURSIVE DeserializeCall(_, _, _, _)
RECURSIVE DesFold(_, _, _)
RECURSIVE Deserialize_(_, _, _)
RECURSIVE DesElems(_, _, _)

\* The elements of a vector, appended in order as they are decoded.
DesElems(st, n, acc) ==
    IF n = 0 THEN [st |-> st, v |-> VecV(acc)]
    ELSE IF ~CanRead(st, 2) THEN [st |-> Fail(st), v |-> VecV(acc)]
    ELSE DesElems([st EXCEPT !.pos = @ + 2], n - 1,
                  Append(acc, DecInt(SubSeq(st.mem, st.pos + 1, st.pos + 2))))

\* A nested call shares the buffer; a failure inside it ends the caller too.
NestedDes(st, a, depth) ==
    LET r == DeserializeCall(st.mem, st.pos, a.s, depth + 1)
    IN [st |-> IF r.status = "ok"
               THEN [st EXCEPT !.pos = r.pos, !.steps = @ \o r.steps]
               ELSE [Fail(st) EXCEPT !.steps = @ \o r.steps],
        v |-> [a EXCEPT !.s = r.vals]]

\* Serializer::deserialize_: the default operation, by the category of the
\* destination.
Deserialize_(st, a, depth) ==
    CASE a.k = "int" ->
            IF CanRead(st, 2)
            THEN [st |-> [st EXCEPT !.pos = @ + 2],
                  v |-> IntV(DecInt(SubSeq(st.mem, st.pos + 1, st.pos + 2)))]
            ELSE [st |-> Fail(st), v |-> a]
      [] a.k = "vec" ->
            IF CanRead(st, 1)
            THEN DesElems([st EXCEPT !.pos = @ + 1], st.mem[st.pos + 1], <<>>)
            ELSE [st |-> Fail(st), v |-> a]
      [] a.k = "obj" -> NestedDes(st, a, depth)

\* A phase-aware callable in the Deserialization phase.
CallFnDes(st, a, depth) ==
    IF a.n = 0
    THEN LET r == DesFold([st EXCEPT !.vals = <<>>, !.steps = <<>>], a.s, depth)
         IN [st |-> [r EXCEPT !.vals = st.vals,
                              !.steps = st.steps \o Deeper(r.steps, depth)],
             v |-> [a EXCEPT !.s = r.vals]]
    ELSE NestedDes(st, a, depth)

\* A fold that takes the arguments from the right: argument i is the one
\* at the head of args.
RECURSIVE DesFoldFromRight(_, _, _, _)
DesFoldFromRight(st, args, depth, i) ==
    IF args = <<>> THEN st
    ELSE LET a == Head(args)
             t == DesFoldFromRight([st EXCEPT !.vals = <<>>], Tail(args), depth, i + 1)
             r == IF a.k = "fn" THEN CallFnDes(t, a, depth)
                  ELSE Deserialize_(t, a, depth)
         IN IF t.status # "ok" THEN [t EXCEPT !.vals = st.vals \o <<a>> \o t.vals]
            ELSE [r.st EXCEPT !.vals = st.vals \o <<r.v>> \o t.vals,
                              !.fail = IF r.st.status = "ok" THEN 0 ELSE i]

DesFoldRightToLeft(st, args, depth) ==
    DesFoldFromRight(st, args, depth, Len(st.vals) + 1)

\* The fold of deserialize over its arguments, left to right; the exception
\* of a failed argument ends it, and the arguments after it are not reached.
DesFold(st, args, depth) ==
    IF args = <<>> THEN st
    ELSE IF st.status # "ok" THEN [st EXCEPT !.vals = @ \o args]
    ELSE LET a == Head(args)
             r == IF a.k = "fn" THEN CallFnDes(st, a, depth)
                  ELSE Deserialize_(st, a, depth)
             k == Len(st.vals) + 1
             path == IF a.k = "fn" THEN "callable" ELSE "default"
         IN DesFold([r.st EXCEPT !.vals = Append(@, r.v),
                                 !.fail = IF r.st.status = "ok" THEN 0 ELSE k,
                                 !.steps = Append(@, Step(depth, a, path, "Deserialization",
                                                          st.pos, r.st.pos))],
                    Tail(args), depth)

\* Ser serializer(mem, pos), in deserialize
BindStrategyDes(m, pos) == Serializer(m, pos)

\* deserialize<Ser>(mem, pos, args...)
DeserializeCall(m, pos, args, depth) ==
    DesFold(BindStrategyDes(m, pos), args, depth)

\* A default-constructed destination of the type of a value.
RECURSIVE Default(_)
Default(a) ==
    CASE a.k = "int" -> IntV(0)
      [] a.k = "vec" -> VecV(<<>>)
      [] OTHER -> [a EXCEPT !.s = [i \in 1..Len(a.s) |-> Default(a.s[i])]]

Defaults(args) == [i \in 1..Len(args) |-> Default(args[i])]

(***************************************************************************)
(* The traversal engine on one buffer.                                     *)
(***************************************************************************)

\* The argument lists the callers pass.
ArgLists ==
    << <<>>,
       <<IntV(7)>>,
       <<IntV(-3), VecV(<<1, 300>>), IntV(4)>>,
       <<ObjV(<<IntV(7)>>), IntV(-2)>>,
       <<IntV(5), ObjV(<<VecV(<<>>), IntV(-1)>>)>>,
       <<FnV(0, <<IntV(9)>>), IntV(1)>>,
       <<IntV(2), FnV(1, <<IntV(9)>>)>> >>

(***************************************************************************)
(* The metafunctions on types.  A type is a base type, the cv-qualifiers   *)
(* of it, and the reference made to it, as in const std::string &.         *)
(***************************************************************************)

BaseTypes == {"std::string", "int", "const char *", "std::vector<int>"}

RefKinds == {"none", "&", "&&"}

Types == [base : BaseTypes, const : BOOLEAN, volatile : BOOLEAN, ref : RefKinds]

StdString == [base |-> "std::string", const |-> FALSE, volatile |-> FALSE, ref |-> "none"]

\* std::remove_reference_t<T>
RemoveReference(T) == [T EXCEPT !.ref = "none"]

\* std::remove_const_t<T>: the top-level const, which a reference has not.
RemoveConst(T) == IF T.ref = "none" THEN [T EXCEPT !.const = FALSE] ELSE T

\* std::is_same_v<A, B>
IsSame(A, B) == A = B

\* base_t<T>, of type_transform.hpp
base_t(T) == RemoveConst(RemoveReference(T))

\* is_string_v<T>, of type_transform.hpp
is_string_v(T) == IsSame(base_t(T), StdString)

\* is_string_v<T>, of the earlier metafunctions header
is_string_v_old(T) == IsSame(RemoveReference(T), StdString)

IdleMeta == /\ tyT = <<>> /\ isString = <<>> /\ instances = {}

IdleBind == /\ obj = <<>> /\ closure = <<>> /\ objAtBind = <<>>
IdleStruct == /\ sobj = <<>> /\ sprev = <<>> /\ written = <<>>
IdleChain ==
    /\ sig = <<>> /\ ids = <<>> /\ srcF = <<>> /\ dstF = <<>> /\ dst0 = <<>>
    /\ heap = <<>> /\ heap0 = <<>> /\ str = <<>> /\ str0 = <<>> /\ input = <<>>
    /\ view = <<>>
    /\ clog = <<>>

\* A buffer of the caller: empty, or holding MaxLen bytes of earlier content.
InitBuf ==
    /\ op = "init" /\ nops = 0 /\ status = "ok"
    /\ memKind \in {"vector", "bytes"}
    /\ slack \in 0..MaxSlack
    /\ mem \in {<<>>, [i \in 1..MaxLen |-> 170]}
    /\ prevMem = mem /\ callPos = 0 /\ callArgs = <<>> /\ ret = 0
    /\ trims = <<>> /\ steps = <<>> /\ outVals = <<>> /\ failAt = 0 /\ recs = <<>>

InitEngine ==
    scenario = "engine" /\ InitBuf /\ IdleBind /\ IdleStruct /\ IdleChain /\ IdleMeta


\* The records that lie back to back in the buffer after a write at pos.
RecsAfter(pos, r, args) ==
    LET rec == [pos |-> pos, end |-> r.pos, args |-> args, mem |-> r.mem]
    IN IF recs # <<>> /\ pos = recs[Len(recs)].end THEN Append(recs, rec)
       ELSE IF pos = 0 THEN <<rec>>
       ELSE <<>>

\* A caller serializes an argument list at position 0 or where the last
\* operation ended.
DoSerialize ==
    /\ scenario = "engine" /\ nops < MaxOps
    /\ \E pos \in {0, ret}, i \in 1..Len(ArgLists) :
         LET args == ArgLists[i]
             r == SerializeCall(mem, pos, args, 0)
         IN /\ mem' = r.mem
            /\ ret' = r.pos
            /\ trims' = r.trims
            /\ steps' = r.steps
            /\ callPos' = pos
            /\ callArgs' = args
            /\ recs' = RecsAfter(pos, r, args)
    /\ prevMem' = mem
    /\ op' = "serialize" /\ nops' = nops + 1 /\ status' = "ok"
    /\ UNCHANGED <<scenario, metaVars, memKind, slack, outVals, failAt, bindVars, structVars, chainVars>>

\* A caller deserializes into default-constructed arguments.
DoDeserialize ==
    /\ scenario = "engine" /\ nops < MaxOps
    /\ \E pos \in {0, ret}, i \in 1..Len(ArgLists) :
         LET args == Defaults(ArgLists[i])
             r == DeserializeCall(mem, pos, args, 0)
         IN /\ ret' = r.pos
            /\ status' = r.status
            /\ outVals' = r.vals
            /\ failAt' = r.fail
            /\ steps' = r.steps
            /\ callPos' = pos
            /\ callArgs' = args
    /\ prevMem' = mem
    /\ op' = "deserialize" /\ nops' = nops + 1
    /\ UNCHANGED <<scenario, metaVars, mem, memKind, slack, trims, recs, bindVars, structVars, chainVars>>


(***************************************************************************)
(* The struct fast path, for struct { int32_t x; int32_t y; }.             *)
(***************************************************************************)

\* The object's in-memory representation, and the object of a representation.
Repr(o) == EncLE(o.x, 4) \o EncLE(o.y, 4)

FromRepr(bs) == [x |-> DecLE(SubSeq(bs, 1, 4)), y |-> DecLE(SubSeq(bs, 5, 8))]

\* sizeof(*obj)
SizeofT == Len(Repr([x |-> 0, y |-> 0]))

StructVals == {[x |-> 7, y |-> -3], [x |-> -1, y |-> 65536]}

\* serializeStruct(mem, pos, obj)
SerializeStruct(m, pos, o) ==
    LET nb_bytes == SizeofT
        serializer == Serializer(m, pos)
        r == SerAppend(serializer, SubSeq(Repr(o), 1, nb_bytes))
    IN [mem |-> r.mem, ret |-> r.pos]

\* The sizeof(T) bytes at mem.data() + pos; a byte past the end of the
\* buffer is whatever lies there (g).
BytesAt(m, pos, g) ==
    [i \in 1..SizeofT |-> IF pos + i <= Len(m) THEN m[pos + i] ELSE g]

\* A deserializeStruct that returns the position it was given.
DeserializeStructNoAdvance(m, pos, g) ==
    [obj |-> FromRepr(BytesAt(m, pos, g)), ret |-> pos, status |-> "ok"]

\* deserializeStruct(mem, pos, obj): no check of the bytes that remain.
DeserializeStruct(m, pos, g) ==
    [obj |-> FromRepr(BytesAt(m, pos, g)), ret |-> pos + SizeofT, status |-> "ok"]

InitStruct ==
    /\ scenario = "struct" /\ InitBuf /\ IdleBind /\ IdleChain /\ IdleMeta
    /\ sobj = [x |-> 0, y |-> 0] /\ sprev = sobj /\ written = <<>>

\* A caller serializes a struct at any position up to MaxLen, or where the
\* last operation ended.
DoSerializeStruct ==
    /\ scenario = "struct" /\ nops < MaxOps
    /\ \E pos \in (0..MaxLen) \cup {ret}, o \in StructVals :
         LET r == SerializeStruct(mem, pos, o)
         IN /\ mem' = r.mem
            /\ ret' = r.ret
            /\ callPos' = pos
            /\ written' = <<[pos |-> pos, val |-> o]>>
    /\ prevMem' = mem
    /\ op' = "serializeStruct" /\ nops' = nops + 1 /\ status' = "ok"
    /\ UNCHANGED <<scenario, metaVars, memKind, slack, callArgs, trims, steps, outVals, failAt, recs,
                   sobj, sprev, bindVars, chainVars>>

\* A caller deserializes the struct at any position up to MaxLen, or where
\* the last struct was written.
DoDeserializeStruct ==
    /\ scenario = "struct" /\ nops < MaxOps
    /\ \E pos \in (0..MaxLen) \cup {written[i].pos : i \in 1..Len(written)},
          g \in {0, 255} :
         LET r == DeserializeStruct(mem, pos, g)
         IN /\ sobj' = r.obj
            /\ ret' = r.ret
            /\ status' = r.status
            /\ callPos' = pos
    /\ sprev' = sobj
    /\ prevMem' = mem
    /\ op' = "deserializeStruct" /\ nops' = nops + 1
    /\ UNCHANGED <<scenario, metaVars, mem, memKind, slack, callArgs, trims, steps, outVals, failAt,
                   recs, written, bindVars, chainVars>>

(***************************************************************************)
(* bindSerialize, on a host object with two int16_t fields.                *)
(***************************************************************************)

\* The accessor lists a caller binds: the fields by their index in the host.
AccessorLists == << <<1, 2>>, <<2>>, <<2, 1>> >>

FieldVals == {7}

\* The arguments of a callable that captured a copy of the host.
BoundArgsByValue(acc, now, atBind) ==
    [i \in 1..Len(acc) |-> IntV(atBind[acc[i]])]

\* std::invoke(accessors, obj)...: obj is captured by reference, so that the
\* fields are read from the host as it is now.
BoundArgs(acc, now, atBind) ==
    [i \in 1..Len(acc) |-> IntV(now[acc[i]])]

\* size_t pos = 0
DefaultPos == 0

\* The callable bindSerialize<Ser>(obj, accessors...) returns, applied to mem
\* and pos.
BoundSerialize(acc, now, atBind, m, pos) ==
    SerializeCall(m, pos, BoundArgs(acc, now, atBind), 0)

InitBind ==
    /\ scenario = "bind" /\ InitBuf /\ IdleStruct /\ IdleChain /\ IdleMeta
    /\ obj = <<1, 2>> /\ closure = <<>> /\ objAtBind = <<>>

\* bindSerialize<Ser>(obj, accessors...)
DoBind ==
    /\ scenario = "bind" /\ closure = <<>>
    /\ \E i \in 1..Len(AccessorLists) : closure' = <<AccessorLists[i]>>
    /\ objAtBind' = obj
    /\ op' = "bind"
    /\ UNCHANGED <<scenario, metaVars, nops, status, bufVars, obj, structVars, chainVars>>

\* The host's owner assigns a field.
DoSetField ==
    /\ scenario = "bind"
    /\ \E i \in 1..Len(obj), v \in FieldVals :
         /\ obj[i] # v
         /\ obj' = [obj EXCEPT ![i] = v]
    /\ op' = "set"
    /\ UNCHANGED <<scenario, metaVars, nops, status, bufVars, closure, objAtBind, structVars,
                   chainVars>>

\* An invocation f(mem, p), or f(mem) with the default position.
DoInvoke ==
    /\ scenario = "bind" /\ closure # <<>> /\ nops < MaxOps
    /\ \E given \in BOOLEAN, p \in {0, ret} :
         LET pos == IF given THEN p ELSE DefaultPos
             r == BoundSerialize(closure[1], obj, objAtBind, mem, pos)
         IN /\ mem' = r.mem
            /\ ret' = r.pos
            /\ trims' = r.trims
            /\ steps' = r.steps
            /\ callPos' = pos
            /\ callArgs' = <<given>>
    /\ prevMem' = mem
    /\ op' = "invoke" /\ nops' = nops + 1 /\ status' = "ok"
    /\ UNCHANGED <<scenario, metaVars, memKind, slack, outVals, failAt, recs, bindVars,
                   structVars, chainVars>>

(***************************************************************************)
(* The convertor of the text backend: every value ends with a delimiter,   *)
(* a container starts with its length, a pointer with a presence flag.     *)
(***************************************************************************)

Digits == <<"0", "1", "2", "3", "4", "5", "6", "7", "8", "9">>

RECURSIVE NatToChars(_)
NatToChars(n) ==
    IF n < 10 THEN <<Digits[n + 1]>>
    ELSE NatToChars(n \div 10) \o <<Digits[(n % 10) + 1]>>

IntToChars(v) == IF v < 0 THEN <<"-">> \o NatToChars(-v) ELSE NatToChars(v)

DigitOf(c) == CHOOSE d \in 0..9 : Digits[d + 1] = c

RECURSIVE CharsToNat(_, _)
CharsToNat(cs, acc) ==
    IF cs = <<>> THEN acc ELSE CharsToNat(Tail(cs), 10 * acc + DigitOf(Head(cs)))

CharsToInt(cs) ==
    IF Head(cs) = "-" THEN -CharsToNat(Tail(cs), 0) ELSE CharsToNat(cs, 0)

ConvInt(v) == IntToChars(v) \o <<";">>

RECURSIVE ConvElems(_)
ConvElems(xs) == IF xs = <<>> THEN <<>> ELSE ConvInt(Head(xs)) \o ConvElems(Tail(xs))

ConvVec(xs) == ConvInt(Len(xs)) \o ConvElems(xs)

RECURSIVE ConvRows(_)
ConvRows(rows) == IF rows = <<>> THEN <<>> ELSE ConvVec(Head(rows)) \o ConvRows(Tail(rows))

ConvVec2D(rows) == ConvInt(Len(rows)) \o ConvRows(rows)

ConvPtr(p, h) == IF p = 0 THEN ConvInt(0) ELSE ConvInt(1) \o ConvInt(h[p].val)

\* Convertor::serialize(reference, str): what is appended to str.
ConvSerialize(type, v, h) ==
    CASE type = "int" -> ConvInt(v)
      [] type = "vec" -> ConvVec(v)
      [] type = "vec2d" -> ConvVec2D(v)
      [] type = "ptr" -> ConvPtr(v, h)

\* The place of the first delimiter of a view (0: none).
DelimAt(w) ==
    IF \E i \in 1..Len(w) : w[i] = ";"
    THEN CHOOSE i \in 1..Len(w) : w[i] = ";" /\ \A j \in 1..(i - 1) : w[j] # ";"
    ELSE 0

\* The result of a read: the value, the rest of the view, the allocations.
Read(st, v, w, h) == [status |-> st, v |-> v, view |-> w, heap |-> h]

\* A read of one integer: OutOfRange when the view ends before the delimiter.
ReadInt(w, h) ==
    LET i == DelimAt(w)
    IN IF i <= 1 THEN Read("OutOfRange", 0, w, h)
       ELSE Read("ok", CharsToInt(SubSeq(w, 1, i - 1)), SubSeq(w, i + 1, Len(w)), h)

RECURSIVE ReadElems(_, _, _, _)
ReadElems(w, n, acc, h) ==
    IF n = 0 THEN Read("ok", acc, w, h)
    ELSE LET r == ReadInt(w, h)
         IN IF r.status # "ok" THEN Read("OutOfRange", acc, w, h)
            ELSE ReadElems(r.view, n - 1, Append(acc, r.v), h)

ReadVec(w, h) ==
    LET l == ReadInt(w, h)
    IN IF l.status # "ok" THEN Read("OutOfRange", <<>>, w, h)
       ELSE ReadElems(l.view, l.v, <<>>, h)

RECURSIVE ReadRows(_, _, _, _)
ReadRows(w, n, acc, h) ==
    IF n = 0 THEN Read("ok", acc, w, h)
    ELSE LET r == ReadVec(w, h)
         IN IF r.status # "ok" THEN Read("OutOfRange", acc, w, h)
            ELSE ReadRows(r.view, n - 1, Append(acc, r.v), h)

ReadVec2D(w, h) ==
    LET l == ReadInt(w, h)
    IN IF l.status # "ok" THEN Read("OutOfRange", <<>>, w, h)
       ELSE ReadRows(l.view, l.v, <<>>, h)

\* delete p
Free(h, p) == [h EXCEPT ![p].frees = @ + 1]

\* The convertor on a pointer: it reads the flag, destroys the value the
\* field owns, and for a present pointee allocates a default-constructed
\* value and decodes into it.
ReadPtr(w, ref, h) ==
    LET flag == ReadInt(w, h)
        h1 == IF ref # 0 THEN Free(h, ref) ELSE h
        h2 == Append(h1, [val |-> 0, frees |-> 0])
        val == ReadInt(flag.view, h2)
    IN IF flag.status # "ok" THEN Read("OutOfRange", ref, w, h)
       ELSE IF flag.v = 0 THEN Read("ok", 0, flag.view, h1)
       ELSE IF val.status # "ok" THEN Read("OutOfRange", ref, flag.view, h2)
       ELSE Read("ok", Len(h2), val.view, [h2 EXCEPT ![Len(h2)].val = val.v])

\* Convertor::deserialize(str, reference)
ConvDeserialize(type, w, ref, h) ==
    CASE type = "int" -> ReadInt(w, h)
      [] type = "vec" -> ReadVec(w, h)
      [] type = "vec2d" -> ReadVec2D(w, h)
      [] type = "ptr" -> ReadPtr(w, ref, h)

(***************************************************************************)
(* The attribute container.                                                *)
(***************************************************************************)

\* idsStr.find(','): 0 when there is none.
FindComma(s) ==
    IF \E i \in 1..Len(s) : s[i] = ","
    THEN CHOOSE i \in 1..Len(s) : s[i] = "," /\ \A j \in 1..(i - 1) : s[j] # ","
    ELSE 0

\* name(idsStr.substr(0, idsStr.find(',')))
NameOf(s) == IF FindComma(s) = 0 THEN s ELSE SubSeq(s, 1, FindComma(s) - 1)

\* idsStr.substr(parser::nextId(idsStr)): the text after the first name.
AfterFirstId(s) == IF FindComma(s) = 0 THEN <<>> ELSE SubSeq(s, FindComma(s) + 1, Len(s))

\* The constructor: one node per field, named by the leading identifier.
RECURSIVE MakeChain(_, _)
MakeChain(types, idsStr) ==
    IF types = <<>> THEN <<>>
    ELSE <<[name |-> NameOf(idsStr), type |-> Head(types)]>>
         \o MakeChain(Tail(types), AfterFirstId(idsStr))

\* The identifier strings the macro makes of "a, b" and of "this->a, this->b".
FieldIds == <<"a", "b", "c", "d", "e", "f">>

IdOf(i, variant) ==
    IF variant = "this" THEN <<"t", "h", "i", "s", "-", ">", FieldIds[i]>>
    ELSE <<FieldIds[i]>>

RECURSIVE IdsFrom(_, _, _)
IdsFrom(i, n, variant) ==
    IF i > n THEN <<>>
    ELSE IdOf(i, variant) \o (IF i < n THEN <<",">> ELSE <<>>) \o IdsFrom(i + 1, n, variant)

IdsStr(n, variant) == IdsFrom(1, n, variant)

\* A serialize that visits the rest of the chain before the head.
RECURSIVE AttrSerializeNextFirst(_, _, _, _, _)
AttrSerializeNextFirst(k, chain, fields, h, s) ==
    IF k > Len(chain) THEN s
    ELSE LET s1 == IF k < Len(chain)
                   THEN AttrSerializeNextFirst(k + 1, chain, fields, h, s)
                   ELSE s
         IN s1 \o ConvSerialize(chain[k].type, fields[k], h)

\* A serialize whose head starts the string afresh.
RECURSIVE AttrSerializeAfresh(_, _, _, _, _)
AttrSerializeAfresh(k, chain, fields, h, s) ==
    IF k > Len(chain) THEN s
    ELSE LET s1 == (IF k = 1 THEN <<>> ELSE s) \o ConvSerialize(chain[k].type, fields[k], h)
         IN IF k < Len(chain) THEN AttrSerializeAfresh(k + 1, chain, fields, h, s1)
            ELSE s1

\* AttrContainer::serialize(str) of node k: the head's convertor appends to
\* str, then the next node runs; the empty chain returns str.
RECURSIVE AttrSerialize(_, _, _, _, _)
AttrSerialize(k, chain, fields, h, s) ==
    IF k > Len(chain) THEN s
    ELSE LET s1 == s \o ConvSerialize(chain[k].type, fields[k], h)
         IN IF k < Len(chain) THEN AttrSerialize(k + 1, chain, fields, h, s1)
            ELSE s1

\* A release that deletes and leaves the pointer as it was.
ReleaseOwnedDangling(type, ref, h) ==
    IF type = "ptr" /\ ref # 0 THEN [ref |-> ref, heap |-> Free(h, ref)]
    ELSE [ref |-> ref, heap |-> h]

\* if constexpr (std::is_pointer_v<H>) { if (reference != nullptr) { delete
\* reference; reference = nullptr; } }
ReleaseOwned(type, ref, h) ==
    IF type = "ptr" /\ ref # 0 THEN [ref |-> 0, heap |-> Free(h, ref)]
    ELSE [ref |-> ref, heap |-> h]

\* The frees of the allocation a pointer field held before the decode.
FreesOf(type, old, h) == IF type = "ptr" /\ old # 0 THEN h[old].frees ELSE 0

\* A step that gives the field back what it held when the convertor fails.
AfterNodeKeepsOld(k, cs, old, rel, r) ==
    [fields |-> [cs.fields EXCEPT ![k] = IF r.status = "ok" THEN r.v ELSE old],
     heap |-> r.heap,
     view |-> r.view,
     status |-> r.status,
     fail |-> IF r.status = "ok" THEN 0 ELSE k,
     log |-> Append(cs.log, [k |-> k, saw |-> rel.ref, old |-> old,
                             oldFrees |-> FreesOf(cs.type[k], old, rel.heap)]),
     type |-> cs.type]

\* The node's step, given what the release and the convertor did.
AfterNode(k, cs, old, rel, r) ==
    [fields |-> [cs.fields EXCEPT ![k] = IF r.status = "ok" THEN r.v ELSE rel.ref],
     heap |-> r.heap,
     view |-> r.view,
     status |-> r.status,
     fail |-> IF r.status = "ok" THEN 0 ELSE k,
     log |-> Append(cs.log, [k |-> k, saw |-> rel.ref, old |-> old,
                             oldFrees |-> FreesOf(cs.type[k], old, rel.heap)]),
     type |-> cs.type]

\* A decode that takes the identifier's qualifier (the name but for its last
\* character) for a part of the text.
RECURSIVE AttrDeserializeNamed(_, _, _)
AttrDeserializeNamed(k, chain, cs) ==
    IF k > Len(chain) THEN cs
    ELSE LET rel == ReleaseOwned(chain[k].type, cs.fields[k], cs.heap)
             skip == Len(chain[k].name) - 1
             w == SubSeq(cs.view, skip + 1, Len(cs.view))
             r == ConvDeserialize(chain[k].type, w, rel.ref, rel.heap)
             cs1 == AfterNode(k, cs, cs.fields[k], rel, r)
         IN IF cs1.status = "ok" THEN AttrDeserializeNamed(k + 1, chain, cs1) ELSE cs1

\* AttrContainer::deserialize(str) of node k: release what a pointer field
\* owns, assign the field what the convertor decodes, then the next node
\* runs; an exception of the convertor ends the chain.
RECURSIVE AttrDeserialize(_, _, _)
AttrDeserialize(k, chain, cs) ==
    IF k > Len(chain) THEN cs
    ELSE LET rel == ReleaseOwned(chain[k].type, cs.fields[k], cs.heap)
             r == ConvDeserialize(chain[k].type, cs.view, rel.ref, rel.heap)
             cs1 == AfterNode(k, cs, cs.fields[k], rel, r)
         IN IF cs1.status = "ok" THEN AttrDeserialize(k + 1, chain, cs1) ELSE cs1

\* The state a decode of the text w starts in.
ChainStart(types, fields, h, w) ==
    [fields |-> fields, heap |-> h, view |-> w, status |-> "ok", fail |-> 0,
     log |-> <<>>, type |-> types]

\* The field types of the hosts, and two values of each type.
ChainSigs ==
    << <<"ptr">>,
       <<"int", "ptr">>,
       <<"vec", "vec", "vec2d">>,
       <<"ptr", "vec", "ptr">> >>

Sample(type, variant) ==
    CASE type = "int" -> IF variant = 1 THEN -3 ELSE 12
      [] type = "vec" -> IF variant = 1 THEN <<>> ELSE <<7, -30>>
      [] type = "vec2d" -> IF variant = 1 THEN <<<<1, 2>>, <<3>>>> ELSE <<<<>>, <<10>>>>
      [] type = "ptr" -> 0

DefaultOf(type) ==
    CASE type = "int" -> 0
      [] type = "vec" -> <<>>
      [] type = "vec2d" -> <<>>
      [] type = "ptr" -> 0

\* The pointer fields among the first i that own an allocation.
Owning(types, vs, i) == {j \in 1..i : types[j] = "ptr" /\ vs[j] = 2}

\* The fields of the encoded host, its allocations first in the heap.
SrcFields(types, vs) ==
    [i \in 1..Len(types) |->
        IF types[i] = "ptr"
        THEN (IF vs[i] = 2 THEN Cardinality(Owning(types, vs, i)) ELSE 0)
        ELSE Sample(types[i], vs[i])]

\* The fields of the host decoded into: default-constructed, a pointer null
\* or owning an allocation.
DstFields(types, vs, dv) ==
    [i \in 1..Len(types) |->
        IF types[i] = "ptr"
        THEN (IF dv[i] = 2
              THEN Cardinality(Owning(types, vs, Len(types)))
                   + Cardinality(Owning(types, dv, i))
              ELSE 0)
        ELSE DefaultOf(types[i])]

InitHeap(types, vs, dv) ==
    LET ns == Cardinality(Owning(types, vs, Len(types)))
        nd == Cardinality(Owning(types, dv, Len(types)))
    IN [c \in 1..(ns + nd) |-> [val |-> IF c <= ns THEN 6 + c ELSE 99, frees |-> 0]]

InitChain ==
    /\ scenario = "chain" /\ op = "init" /\ nops = 0 /\ status = "ok"
    /\ mem = <<>> /\ memKind = "vector" /\ slack = 0 /\ prevMem = <<>>
    /\ callPos = 0 /\ callArgs = <<>> /\ ret = 0 /\ trims = <<>>
    /\ steps = <<>>
    /\ outVals = <<>> /\ failAt = 0 /\ recs = <<>>
    /\ IdleBind /\ IdleStruct /\ IdleMeta
    /\ \E c \in 1..Len(ChainSigs) :
         \E vs \in [1..Len(ChainSigs[c]) -> {1, 2}], dv \in [1..Len(ChainSigs[c]) -> {1, 2}] :
            LET types == ChainSigs[c] IN
            /\ \A i \in 1..Len(types) : types[i] # "ptr" => dv[i] = 1
            /\ sig = types
            /\ srcF = SrcFields(types, vs)
            /\ dstF = DstFields(types, vs, dv)
            /\ heap = InitHeap(types, vs, dv)
    /\ ids \in [src : {"plain", "this"}, dst : {"plain", "this"}]
    /\ dst0 = dstF /\ heap0 = heap
    /\ str = <<>> /\ str0 = <<>> /\ input = <<>> /\ view = <<>> /\ clog = <<>>

\* The encoded host serializes its fields into a fresh string.
DoChainSerialize ==
    /\ scenario = "chain" /\ op = "init"
    /\ str' = AttrSerialize(1, MakeChain(sig, IdsStr(Len(sig), ids.src)), srcF, heap, str)
    /\ str0' = str
    /\ op' = "chainSerialize"
    /\ UNCHANGED <<scenario, metaVars, nops, status, bufVars, bindVars, structVars, sig, ids,
                   srcF, dstF, dst0, heap, heap0, input, view, clog>>

\* Where the encoding of the first j fields of the encoded host ends.
FieldEnd(j) ==
    IF j = 0 THEN 0
    ELSE Len(AttrSerialize(1, MakeChain(SubSeq(sig, 1, j), IdsStr(j, ids.src)),
                           srcF, heap, <<>>))

\* The beginnings of the string a decode is handed: up to the end of a
\* field, or two characters into the next one.
Cuts ==
    IF str = <<>> THEN {0}
    ELSE {FieldEnd(j) : j \in 0..Len(sig)} \cup {FieldEnd(j) + 2 : j \in 0..(Len(sig) - 1)}

\* The other host deserializes the string, or a beginning of it.
DoChainDeserialize ==
    /\ scenario = "chain" /\ nops < MaxOps
    /\ \E cut \in Cuts :
         LET w == SubSeq(str, 1, cut)
             r == AttrDeserialize(1, MakeChain(sig, IdsStr(Len(sig), ids.dst)),
                                  ChainStart(sig, dstF, heap, w))
         IN /\ input' = w
            /\ dstF' = r.fields
            /\ heap' = r.heap
            /\ view' = r.view
            /\ status' = r.status
            /\ failAt' = r.fail
            /\ clog' = r.log
    /\ dst0' = dstF /\ heap0' = heap
    /\ op' = "chainDeserialize" /\ nops' = nops + 1
    /\ UNCHANGED <<scenario, metaVars, mem, memKind, slack, prevMem, callPos, callArgs, ret,
                   trims, steps, outVals, recs, bindVars, structVars, sig, ids, srcF, str,
                   str0>>

(***************************************************************************)
(* The chain on a string that already holds text, the empty chain included.*)
(***************************************************************************)

\* What the string holds before the first serialize: nothing, or the text of
\* earlier values.
PriorSinks == << <<>>, <<"4", ";">>, <<"-", "2", ";", "0", ";">> >>

\* The field types of the hosts, the host without fields among them.
SinkSigs == <<<<>>>> \o ChainSigs

InitSink ==
    /\ scenario = "sink" /\ op = "init" /\ nops = 0 /\ status = "ok"
    /\ mem = <<>> /\ memKind = "vector" /\ slack = 0 /\ prevMem = <<>>
    /\ callPos = 0 /\ callArgs = <<>> /\ ret = 0 /\ trims = <<>>
    /\ steps = <<>>
    /\ outVals = <<>> /\ failAt = 0 /\ recs = <<>>
    /\ IdleBind /\ IdleStruct /\ IdleMeta
    /\ \E c \in 1..Len(SinkSigs) :
         \E vs \in [1..Len(SinkSigs[c]) -> {1, 2}], dv \in [1..Len(SinkSigs[c]) -> {1, 2}] :
            LET types == SinkSigs[c] IN
            /\ \A i \in 1..Len(types) : types[i] # "ptr" => dv[i] = 1
            /\ sig = types
            /\ srcF = SrcFields(types, vs)
            /\ dstF = DstFields(types, vs, dv)
            /\ heap = InitHeap(types, vs, dv)
    /\ ids = [src |-> "plain", dst |-> "plain"]
    /\ dst0 = dstF /\ heap0 = heap
    /\ \E i \in 1..Len(PriorSinks) : str = PriorSinks[i]
    /\ str0 = <<>> /\ input = <<>> /\ view = <<>> /\ clog = <<>>

\* The encoded host serializes its fields into the string as it is.
DoSinkSerialize ==
    /\ scenario = "sink" /\ nops < MaxOps
    /\ str' = AttrSerialize(1, MakeChain(sig, IdsStr(Len(sig), ids.src)), srcF, heap, str)
    /\ str0' = str
    /\ op' = "sinkSerialize" /\ nops' = nops + 1
    /\ UNCHANGED <<scenario, metaVars, status, bufVars, bindVars, structVars, sig, ids,
                   srcF, dstF, dst0, heap, heap0, input, view, clog>>

\* The other host deserializes the string, from its start or from where the
\* last serialize began to write.
DoSinkDeserialize ==
    /\ scenario = "sink" /\ nops < MaxOps
    /\ \E from \in {0, Len(str0)} :
         LET w == SubSeq(str, from + 1, Len(str))
             r == AttrDeserialize(1, MakeChain(sig, IdsStr(Len(sig), ids.dst)),
                                  ChainStart(sig, dstF, heap, w))
         IN /\ input' = w
            /\ dstF' = r.fields
            /\ heap' = r.heap
            /\ view' = r.view
            /\ status' = r.status
            /\ failAt' = r.fail
            /\ clog' = r.log
    /\ dst0' = dstF /\ heap0' = heap
    /\ op' = "sinkDeserialize" /\ nops' = nops + 1
    /\ UNCHANGED <<scenario, metaVars, mem, memKind, slack, prevMem, callPos, callArgs, ret,
                   trims, steps, outVals, recs, bindVars, structVars, sig, ids, srcF, str,
                   str0>>

(***************************************************************************)
(* The instantiation of the string predicate of either header.             *)
(***************************************************************************)

InitMeta ==
    /\ scenario = "meta" /\ op = "init" /\ nops = 0 /\ status = "ok"
    /\ mem = <<>> /\ memKind = "vector" /\ slack = 0 /\ prevMem = <<>>
    /\ callPos = 0 /\ callArgs = <<>> /\ ret = 0 /\ trims = <<>>
    /\ steps = <<>> /\ outVals = <<>> /\ failAt = 0 /\ recs = <<>>
    /\ IdleBind /\ IdleStruct /\ IdleChain /\ IdleMeta

\* A translation unit instantiates is_string_v<T> of both headers.
DoInstantiate ==
    /\ scenario = "meta" /\ nops < MaxOps
    /\ \E T \in Types :
         /\ tyT' = T
         /\ isString' = [old |-> is_string_v_old(T), new |-> is_string_v(T)]
         /\ instances' = instances \cup {T}
    /\ op' = "instantiate" /\ nops' = nops + 1
    /\ UNCHANGED <<scenario, status, bufVars, bindVars, structVars, chainVars>>

(***************************************************************************)
(* The specification.                                                      *)
(***************************************************************************)

\* The traversal engine on one buffer.
Init == InitEngine

Next == DoSerialize \/ DoDeserialize

Spec == Init /\ [][Next]_vars

\* The struct fast path.
NextStruct == DoSerializeStruct \/ DoDeserializeStruct

SpecStruct == InitStruct /\ [][NextStruct]_vars

\* bindSerialize.
NextBind == DoBind \/ DoSetField \/ DoInvoke

SpecBind == InitBind /\ [][NextBind]_vars

\* The field descriptor chain.
NextChain == DoChainSerialize \/ DoChainDeserialize

SpecChain == InitChain /\ [][NextChain]_vars

\* Decoding, by the engine and by the chain.
InitDecode == InitEngine \/ InitChain

NextDecode == Next \/ NextChain

SpecDecode == InitDecode /\ [][NextDecode]_vars

\* The chain on a string that already holds text.
NextSink == DoSinkSerialize \/ DoSinkDeserialize

SpecSink == InitSink /\ [][NextSink]_vars

\* The string predicate.
NextMeta == DoInstantiate

SpecMeta == InitMeta /\ [][NextMeta]_vars

(***************************************************************************)
(* The claims.                                                             *)
(***************************************************************************)

\* What deserialize gives for a record at its position in the buffer m.
Decoded(m, rec) == DeserializeCall(m, rec.pos, Defaults(rec.args), 0)

\* C2: records serialized back to back (the next one at the position the
\* one before returned) end in increasing positions, a later call leaves the
\* bytes of an earlier record as that record's call wrote them, and each
\* record decodes at its own position to its own values and end position.
C2_BackToBackRecords ==
    scenario = "engine" =>
        \A i \in 1..Len(recs) :
            /\ i > 1 => recs[i - 1].end <= recs[i].end
            /\ SubSeq(mem, 1, recs[i].end) = SubSeq(recs[i].mem, 1, recs[i].end)
            /\ Decoded(mem, recs[i]).status = "ok"
            /\ Decoded(mem, recs[i]).pos = recs[i].end
            /\ Decoded(mem, recs[i]).vals = recs[i].args

\* Two records, neither empty, lie in the buffer, the first written at 0.
C2_Witness ==
    /\ scenario = "engine" /\ Len(recs) = 2
    /\ recs[1].pos = 0 /\ recs[1].end > 0
    /\ recs[2].pos = recs[1].end /\ recs[2].end > recs[2].pos

\* C3: no serialize call made from inside another one changes the length
\* of the buffer by the resize at its end.
C3_NestedNeverTrims ==
    \A i \in 1..Len(trims) : trims[i][1] > 0 => trims[i][2] = trims[i][3]

\* C4: after an outermost serialize on a resizable buffer the length of the
\* buffer is the position returned.
C4_OutermostTrimmed ==
    (scenario = "engine" /\ op = "serialize" /\ memKind = "vector") => Len(mem) = ret

\* C7: serializeStruct writes the sizeof(T) bytes of the object's
\* representation at [pos, pos + sizeof(T)), leaves the bytes before pos as
\* they were and returns pos + sizeof(T); deserializeStruct at the position
\* of that write gives the destination the object written and returns the
\* same position.
C7_StructRoundTrip ==
    /\ (scenario = "struct" /\ op = "serializeStruct") =>
          /\ SubSeq(mem, callPos + 1, callPos + SizeofT) = Repr(written[1].val)
          /\ \A i \in 1..callPos : i <= Len(prevMem) => mem[i] = prevMem[i]
          /\ ret = callPos + SizeofT
    /\ (scenario = "struct" /\ op = "deserializeStruct" /\ written # <<>>
          /\ callPos = written[1].pos) =>
          /\ sobj = written[1].val
          /\ ret = written[1].pos + SizeofT

\* A struct with a negative field was written past position 0 and read back
\* into a destination that held another value.
C7_Witness ==
    /\ scenario = "struct" /\ op = "deserializeStruct" /\ written # <<>>
    /\ callPos = written[1].pos /\ callPos > 0
    /\ sobj = [x |-> 7, y |-> -3] /\ sprev # sobj

\* C8: deserializeStruct with fewer than sizeof(T) bytes left from pos ends
\* with OutOfRange, leaves the destination as it was and returns no position
\* past the end of the buffer.
C8_StructUnderrunFails ==
    (scenario = "struct" /\ op = "deserializeStruct" /\ callPos + SizeofT > Len(mem)) =>
        /\ status = "OutOfRange"
        /\ sobj = sprev
        /\ ret <= Len(mem)

\* The fields the callable's accessors name, read from the host.
FieldsOf(host) == [i \in 1..Len(closure[1]) |-> IntV(host[closure[1][i]])]

SameField(i) ==
    IF sig[i] = "ptr"
    THEN \/ dstF[i] = 0 /\ srcF[i] = 0
         \/ /\ dstF[i] # 0 /\ srcF[i] # 0
            /\ heap[dstF[i]].val = heap[srcF[i]].val
    ELSE dstF[i] = srcF[i]

\* The last decode was handed all the text the encode produced.
DecodedWhole ==
    /\ scenario = "chain" /\ op = "chainDeserialize"
    /\ str # <<>> /\ str0 = <<>> /\ input = str

\* C1: a decode of the text that the encode of a chain produced, by a chain
\* of the same types, ends without failure, consumes the text and leaves
\* every field structurally equal to the encoded field of the same place.
C1_ChainRoundTrip ==
    DecodedWhole =>
        /\ status = "ok"
        /\ view = <<>>
        /\ \A i \in 1..Len(sig) : SameField(i)

\* The fields of WithContainer: an empty vector, a vector and a vector of
\* vectors of differing lengths, decoded.
C1_Witness ==
    /\ DecodedWhole
    /\ sig = <<"vec", "vec", "vec2d">>
    /\ dstF = << <<>>, <<7, -30>>, <<<<1, 2>>, <<3>>>> >>

\* The log entries of the last decode for the pointer fields.
PtrEntries == {i \in 1..Len(clog) : sig[clog[i].k] = "ptr"}

\* C5: no allocation is ever freed twice; in a decode, the allocation a
\* pointer field held was freed once when the convertor is invoked and the
\* convertor is handed a null field; a field decoded from a present pointer
\* owns a fresh live allocation with the decoded value, one decoded from an
\* absent pointer is null.
C5_ReleaseBeforeDecode ==
    (scenario = "chain" /\ op = "chainDeserialize") =>
        /\ \A c \in 1..Len(heap) : heap[c].frees <= 1
        /\ \A i \in PtrEntries :
             LET e == clog[i] IN
             /\ e.saw = 0
             /\ e.old # 0 => (e.oldFrees = 1 /\ heap[e.old].frees = 1)
             /\ (failAt # e.k /\ srcF[e.k] = 0) => dstF[e.k] = 0
             /\ (failAt # e.k /\ srcF[e.k] # 0) =>
                   /\ dstF[e.k] > Len(heap0)
                   /\ heap[dstF[e.k]].frees = 0
                   /\ heap[dstF[e.k]].val = heap[srcF[e.k]].val

\* A second decode in a row: the first field held an allocation and decodes
\* to null, the last one held the allocation the first decode made and owns
\* a fresh one.
C5_Witness ==
    /\ scenario = "chain" /\ op = "chainDeserialize" /\ nops = 2 /\ status = "ok"
    /\ sig = <<"ptr", "vec", "ptr">>
    /\ dst0[3] > 0 /\ heap0[dst0[3]].val = heap[srcF[3]].val
    /\ heap[dst0[3]].frees = 1 /\ dstF[3] > dst0[3]
    /\ srcF[1] = 0 /\ dstF[1] = 0

\* C6, for the chain: after a failure at field failAt the fields after it
\* are as before the decode and their allocations live, and the fields
\* before it hold the decoded values.
C6_Chain ==
    (scenario = "chain" /\ op = "chainDeserialize" /\ status = "OutOfRange") =>
        /\ failAt \in 1..Len(sig)
        /\ Len(clog) = failAt
        /\ \A j \in (failAt + 1)..Len(sig) :
              /\ dstF[j] = dst0[j]
              /\ (sig[j] = "ptr" /\ dstF[j] # 0) => heap[dstF[j]] = heap0[dstF[j]]
        /\ \A j \in 1..(failAt - 1) : SameField(j)

\* C6, for the argument list: after a failure at argument failAt the
\* arguments after it are as they were handed in, and those before it hold
\* what a deserialize of them alone decodes.
C6_Engine ==
    (scenario = "engine" /\ op = "deserialize" /\ status = "OutOfRange") =>
        /\ failAt \in 1..Len(callArgs)
        /\ \A j \in (failAt + 1)..Len(callArgs) : outVals[j] = callArgs[j]
        /\ LET pre == DeserializeCall(mem, callPos, SubSeq(callArgs, 1, failAt - 1), 0)
           IN /\ pre.status = "ok"
              /\ \A j \in 1..(failAt - 1) : outVals[j] = pre.vals[j]

\* C6: a decode that fails with OutOfRange at field k leaves the fields
\* after k untouched and the fields before k with their decoded values.
C6_FailureKeepsDecoded == C6_Chain /\ C6_Engine

\* A decode of three arguments failed at the second: the first holds a
\* decoded value, the third is there to be left alone.
C6_Witness ==
    /\ scenario = "engine" /\ op = "deserialize" /\ status = "OutOfRange"
    /\ failAt = 2 /\ Len(callArgs) = 3
    /\ outVals[1] # callArgs[1]

\* The same case in a chain of three fields, the third owning an allocation.
C6_WitnessChain ==
    /\ scenario = "chain" /\ op = "chainDeserialize" /\ status = "OutOfRange"
    /\ failAt = 2 /\ sig = <<"ptr", "vec", "ptr">> /\ dstF[1] # dst0[1] /\ dstF[3] # 0

\* What a chain built from the other identifier string decodes from the
\* text and the fields of the last decode.
OtherIds == IF ids.dst = "plain" THEN "this" ELSE "plain"

DecodedByOther ==
    AttrDeserialize(1, MakeChain(sig, IdsStr(Len(sig), OtherIds)),
                    ChainStart(sig, dst0, heap0, input))

\* C9: a chain of the same types built from another identifier string
\* decodes the same text to the same fields, allocations and place in the
\* text, with the same outcome; and a record that a chain of one identifier
\* string encoded decodes by a chain of another to the encoded values.
C9_IdentifiersDoNotDecode ==
    (scenario = "chain" /\ op = "chainDeserialize") =>
        /\ DecodedByOther.fields = dstF
        /\ DecodedByOther.heap = heap
        /\ DecodedByOther.view = view
        /\ DecodedByOther.status = status
        /\ (DecodedWhole /\ ids.src # ids.dst) =>
              (status = "ok" /\ \A i \in 1..Len(sig) : SameField(i))

\* A record encoded by the chain of "a,b" was decoded by the chain of
\* "this->a,this->b", whose nodes carry other names.
C9_Witness ==
    /\ DecodedWhole /\ ids.src = "plain" /\ ids.dst = "this" /\ Len(sig) = 2
    /\ MakeChain(sig, IdsStr(2, ids.dst))[2].name = <<"t", "h", "i", "s", "-", ">", "b">>
    /\ MakeChain(sig, IdsStr(2, ids.src))[2].name = <<"b">>
    /\ dstF # dst0

\* The encodings of the fields i..n of the encoded host, one after the other.
RECURSIVE EncodingsFrom(_)
EncodingsFrom(i) ==
    IF i > Len(sig) THEN <<>>
    ELSE ConvSerialize(sig[i], srcF[i], heap) \o EncodingsFrom(i + 1)

\* C11: serialize of a chain of n >= 0 fields leaves the string equal to what
\* it held before followed by the encodings of field 1, ..., field n in the
\* order of declaration; with no field, serialize leaves the string as it was
\* and deserialize leaves the view, the fields and the heap as they were.
C11_SinkIsPriorThenFieldsInOrder ==
    scenario = "sink" =>
        /\ op = "sinkSerialize" =>
              /\ str = str0 \o EncodingsFrom(1)
              /\ Len(sig) = 0 => str = str0
        /\ (op = "sinkDeserialize" /\ Len(sig) = 0) =>
              /\ view = input /\ status = "ok"
              /\ dstF = dst0 /\ heap = heap0

\* Three fields written after the text of an earlier serialize.
C11_Witness ==
    /\ scenario = "sink" /\ op = "sinkSerialize" /\ nops = 2
    /\ Len(sig) = 3 /\ Len(str0) > 2
    /\ str # EncodingsFrom(1)
    /\ ConvSerialize(sig[1], srcF[1], heap) # ConvSerialize(sig[2], srcF[2], heap)

\* The chain without fields, given a string that holds text.
C11_WitnessEmpty ==
    /\ scenario = "sink" /\ Len(sig) = 0 /\ nops = 2
    /\ op = "sinkDeserialize" /\ input # <<>> /\ view = input

\* The steps of the fold of the last call itself.
TopSteps == SelectSeq(steps, LAMBDA e : e.depth = 0)

\* The phase of the last call, and the arguments its fold came to.
PhaseOf(o) == IF o = "serialize" THEN "Serialization" ELSE "Deserialization"

Reached == IF status = "ok" THEN Len(callArgs) ELSE failAt

\* C12: in serialize and in deserialize the arguments are handled from left
\* to right by one strategy bound to the starting position: argument i + 1
\* starts where argument i ended, each argument is handled once, a
\* phase-aware callable is invoked with a context of the phase of the call
\* and any other argument goes to the default operation; the call returns
\* the position the last argument ended at.
C12_LeftToRightOneStrategy ==
    (scenario = "engine" /\ op \in {"serialize", "deserialize"}) =>
        /\ Len(TopSteps) = Reached
        /\ \A i \in 1..Reached :
              /\ TopSteps[i].arg.k = callArgs[i].k
              /\ TopSteps[i].arg = callArgs[i]
              /\ TopSteps[i].from = (IF i = 1 THEN callPos ELSE TopSteps[i - 1].to)
              /\ TopSteps[i].from <= TopSteps[i].to
              /\ TopSteps[i].path = (IF callArgs[i].k = "fn" THEN "callable" ELSE "default")
              /\ TopSteps[i].phase = PhaseOf(op)
        /\ status = "ok" =>
              ret = (IF callArgs = <<>> THEN callPos ELSE TopSteps[Len(callArgs)].to)

\* A serialize, after an earlier record, of a callable and then a value.
C12_Witness ==
    /\ scenario = "engine" /\ op = "serialize" /\ callPos > 0
    /\ callArgs = <<FnV(0, <<IntV(9)>>), IntV(1)>>
    /\ Len(TopSteps) = 2 /\ TopSteps[1].to > callPos /\ ret > TopSteps[1].to

\* A deserialize of a value and then a callable that enters deserialize.
C12_WitnessDeserialize ==
    /\ scenario = "engine" /\ op = "deserialize" /\ status = "ok"
    /\ Len(callArgs) = 2 /\ callArgs[2].k = "fn" /\ callArgs[2].n = 1
    /\ Len(TopSteps) = 2 /\ TopSteps[2].from = 2 /\ ret = 4
    /\ Len(steps) = 3

\* The pointer fields of the decoded host.
PtrFields == {i \in 1..Len(sig) : sig[i] = "ptr"}

\* C13: when the convertor fails on a pointer field whose allocation the
\* chain has released, the field is left null and the allocation was freed
\* once; at no time does a pointer field hold a freed allocation, so that a
\* later decode, or the destruction of the host, frees none a second time.
C13_FailedPointerDecodeLeavesNull ==
    scenario = "chain" =>
        /\ \A i \in PtrFields : dstF[i] # 0 => heap[dstF[i]].frees = 0
        /\ (op = "chainDeserialize" /\ status # "ok" /\ failAt \in PtrFields) =>
              /\ dstF[failAt] = 0
              /\ dst0[failAt] # 0 => heap[dst0[failAt]].frees = 1

\* The convertor failed on a pointer field that held an allocation, in a
\* decode that follows an earlier one.
C13_Witness ==
    /\ scenario = "chain" /\ op = "chainDeserialize" /\ nops = 2
    /\ status # "ok" /\ failAt \in PtrFields
    /\ dst0[failAt] # 0 /\ heap[dst0[failAt]].frees = 1
    /\ dstF[failAt] = 0

\* A decode after one that failed on a pointer field: the field, left null,
\* now owns a fresh allocation and the one released then was freed once.
C13_WitnessLater ==
    /\ scenario = "chain" /\ op = "chainDeserialize" /\ nops = 2
    /\ status = "ok" /\ sig = <<"ptr">>
    /\ dst0[1] = 0 /\ dstF[1] # 0
    /\ \E c \in 1..Len(heap0) : heap0[c].frees = 1 /\ heap[c].frees = 1

\* T is std::string once its reference and its const are taken away.
StringButForConstAndRef(T) == T.base = "std::string" /\ ~T.volatile

\* C14: is_string_v<T> is true exactly when T is std::string after removing
\* any reference and any const, and the predicates of both headers give that
\* answer.
C14_IsStringModuloConstRef ==
    (scenario = "meta" /\ op = "instantiate") =>
        /\ isString.new = StringButForConstAndRef(tyT)
        /\ isString.old = StringButForConstAndRef(tyT)
        /\ isString.old = isString.new

====
